---- MODULE Spec2Model ----
(***************************************************************************)
(* Model of tools/TestClassGenerator.py: a Python 2.7 script that writes   *)
(* <class_name>.java from the templates 'header', 'field' and 'footer'.    *)
(* Text is modelled as TLA+ strings, character by character; the file      *)
(* system is a function from the names of the existing files to their      *)
(* content.  A write is shown as it ends up on disk (CPython flushes the   *)
(* file object when it is closed or released); the output path is taken    *)
(* to be writable, and class names hold no newline.                        *)
(***************************************************************************)
EXTENDS Integers, Sequences, FiniteSets, TLC

VARIABLES
    fs,            \* working directory: [name of an existing file -> content]
    argv,          \* sys.argv[1:] of the current invocation
    pc,            \* position of the invocation inside run()
    opts,          \* the (opt, arg) pairs getopt returned
    oi,            \* 1-based index of the next pair of the for loop (line 55)
    class_name,    \* local of run()
    object_size,   \* local of run()
    file_name,     \* local of run()
    fields_count,  \* local of run()
    c,             \* loop variable of write_fields
    stdout,        \* the lines printed
    exit_status,   \* process exit status, -1 while running
    cause,         \* why the process ended
    hdr,           \* lines write_header gave to file.write, in order
    blocks,        \* per executed iteration of write_fields: [index, lines]
    ftr,           \* strings write_footer gave to file.write
    fs0,           \* fs when the invocation started
    prev,          \* the previous invocation, when it completed
    pending        \* the command lines still to run, in order

vars == << fs, argv, pc, opts, oi, class_name, object_size, file_name,
           fields_count, c, stdout, exit_status, cause, hdr, blocks, ftr,
           fs0, prev, pending >>

----------------------------------------------------------------------------
(* Python string primitives *)

\* s[i:] for a 1-based i
From(s, i) == SubSeq(s, i, Len(s))

\* s.startswith(p)
StartsWith(s, p) == Len(p) <= Len(s) /\ SubSeq(s, 1, Len(p)) = p

\* s.endswith(p)
EndsWith(s, p) == Len(p) <= Len(s) /\ SubSeq(s, Len(s) - Len(p) + 1, Len(s)) = p

\* s.find(sub, i): 1-based index of the first occurrence at or after i, 0 if none
RECURSIVE Find(_, _, _)
Find(s, sub, i) ==
    IF i + Len(sub) - 1 > Len(s) THEN 0
    ELSE IF SubSeq(s, i, i + Len(sub) - 1) = sub THEN i
    ELSE Find(s, sub, i + 1)

\* sub in s
Contains(s, sub) == Find(s, sub, 1) # 0

\* s.replace(old, new), old non-empty: every non-overlapping occurrence,
\* scanning left to right
RECURSIVE Replace(_, _, _)
Replace(s, old, new) ==
    LET i == Find(s, old, 1) IN
    IF i = 0 THEN s
    ELSE SubSeq(s, 1, i - 1) \o new \o Replace(From(s, i + Len(old)), old, new)

\* iteration over a text file: the lines, each with its terminating "\n"
\* (the last one without, when the file does not end in a newline)
RECURSIVE Lines(_)
Lines(s) ==
    IF s = "" THEN << >>
    ELSE LET i == Find(s, "\n", 1) IN
         IF i = 0 THEN << s >>
         ELSE << SubSeq(s, 1, i) >> \o Lines(From(s, i + 1))

\* ''.join(seq)
RECURSIVE Join(_)
Join(seq) == IF seq = << >> THEN "" ELSE Head(seq) \o Join(Tail(seq))

Digits == "0123456789"

\* str(n)
RECURSIVE str(_)
str(n) ==
    IF n < 0 THEN "-" \o str(0 - n)
    ELSE IF n < 10 THEN SubSeq(Digits, n + 1, n + 1)
    ELSE str(n \div 10) \o SubSeq(Digits, (n % 10) + 1, (n % 10) + 1)

IsDigit(ch) == Contains(Digits, ch)

DigitVal(ch) == Find(Digits, ch, 1) - 1

RECURSIVE AllDigits(_)
AllDigits(s) ==
    IF s = "" THEN TRUE
    ELSE IsDigit(SubSeq(s, 1, 1)) /\ AllDigits(Tail(s))

RECURSIVE DigitsVal(_, _)
DigitsVal(s, acc) ==
    IF s = "" THEN acc
    ELSE DigitsVal(Tail(s), 10 * acc + DigitVal(SubSeq(s, 1, 1)))

\* s.strip() for blanks
RECURSIVE Strip(_)
Strip(s) ==
    IF s = "" THEN s
    ELSE IF SubSeq(s, 1, 1) = " " THEN Strip(Tail(s))
    ELSE IF SubSeq(s, Len(s), Len(s)) = " " THEN Strip(SubSeq(s, 1, Len(s) - 1))
    ELSE s

HasSign(s) == s # "" /\ SubSeq(s, 1, 1) \in {"+", "-"}

Unsigned(s) == IF HasSign(s) THEN Tail(s) ELSE s

\* whether int(s) returns (otherwise it raises ValueError)
IsInt(s) == Unsigned(Strip(s)) # "" /\ AllDigits(Unsigned(Strip(s)))

\* int(s), for s with IsInt(s)
int(s) ==
    LET t == Strip(s)
        v == DigitsVal(Unsigned(t), 0)
    IN IF StartsWith(t, "-") THEN 0 - v ELSE v

----------------------------------------------------------------------------
(* getopt.getopt of the Python 2.7 standard library, as run() calls it *)

shortopts == "hn:s:"

longopts == << "cname=", "osize=" >>

GetoptError == [err |-> TRUE, opts |-> << >>, args |-> << >>]

\* getopt.short_has_arg: "error" for a letter that is not in shortopts,
\* otherwise whether the letter is followed by ':'
RECURSIVE short_has_arg_from(_, _, _)
short_has_arg_from(opt, so, i) ==
    IF i > Len(so) THEN "error"
    ELSE IF opt = SubSeq(so, i, i) /\ opt # ":"
         THEN IF SubSeq(so, i + 1, i + 1) = ":" THEN "yes" ELSE "no"
    ELSE short_has_arg_from(opt, so, i + 1)

\* variant: a letter that is not in shortopts passes as a flag without value
short_has_arg_lenient(opt, so) ==
    IF short_has_arg_from(opt, so, 1) = "error" THEN "no"
    ELSE short_has_arg_from(opt, so, 1)

short_has_arg(opt, so) == short_has_arg_from(opt, so, 1)

\* getopt.do_shorts: the letters of one "-xyz" argument
RECURSIVE do_shorts(_, _, _, _)
do_shorts(os, optstring, so, args) ==
    IF optstring = "" THEN [err |-> FALSE, opts |-> os, args |-> args]
    ELSE LET opt  == SubSeq(optstring, 1, 1)
             rest == Tail(optstring)
             has  == short_has_arg(opt, so)
         IN IF has = "error" THEN GetoptError
            ELSE IF has = "yes"
                 THEN IF rest = ""
                      THEN IF args = << >> THEN GetoptError
                           ELSE [err |-> FALSE,
                                 opts |-> Append(os, << "-" \o opt, Head(args) >>),
                                 args |-> Tail(args)]
                      ELSE [err |-> FALSE,
                            opts |-> Append(os, << "-" \o opt, rest >>),
                            args |-> args]
            ELSE do_shorts(Append(os, << "-" \o opt, "" >>), rest, so, args)

\* the long options that start with opt
possibilities(opt, lo) == SelectSeq(lo, LAMBDA o : StartsWith(o, opt))

InSeq(x, seq) == \E i \in 1..Len(seq) : seq[i] = x

\* getopt.long_has_args: the option opt abbreviates, and whether it takes
\* an argument
long_has_args(opt, lo) ==
    LET p == possibilities(opt, lo) IN
    IF p = << >> THEN [err |-> TRUE, has_arg |-> FALSE, opt |-> opt]
    ELSE IF InSeq(opt, p) THEN [err |-> FALSE, has_arg |-> FALSE, opt |-> opt]
    ELSE IF InSeq(opt \o "=", p) THEN [err |-> FALSE, has_arg |-> TRUE, opt |-> opt]
    ELSE IF Len(p) > 1 THEN [err |-> TRUE, has_arg |-> FALSE, opt |-> opt]
    ELSE IF EndsWith(p[1], "=")
         THEN [err |-> FALSE, has_arg |-> TRUE,
               opt |-> SubSeq(p[1], 1, Len(p[1]) - 1)]
    ELSE [err |-> FALSE, has_arg |-> FALSE, opt |-> p[1]]

\* getopt.do_longs: one "--name" or "--name=value" argument, given without
\* its leading "--"
do_longs(os, word, lo, args) ==
    LET i      == Find(word, "=", 1)
        given  == i # 0
        name   == IF given THEN SubSeq(word, 1, i - 1) ELSE word
        optarg == IF given THEN From(word, i + 1) ELSE ""
        h      == long_has_args(name, lo)
    IN IF h.err THEN GetoptError
       ELSE IF h.has_arg
            THEN IF given
                 THEN [err |-> FALSE,
                       opts |-> Append(os, << "--" \o h.opt, optarg >>),
                       args |-> args]
                 ELSE IF args = << >> THEN GetoptError
                 ELSE [err |-> FALSE,
                       opts |-> Append(os, << "--" \o h.opt, Head(args) >>),
                       args |-> Tail(args)]
       ELSE IF given THEN GetoptError
       ELSE [err |-> FALSE, opts |-> Append(os, << "--" \o h.opt, "" >>),
             args |-> args]

\* the while loop of getopt.getopt: options are read up to the first
\* argument that is not one, or up to "--"
RECURSIVE getopt_loop(_, _)
getopt_loop(os, args) ==
    IF args = << >> \/ ~StartsWith(Head(args), "-") \/ Head(args) = "-"
    THEN [err |-> FALSE, opts |-> os, args |-> args]
    ELSE IF Head(args) = "--"
         THEN [err |-> FALSE, opts |-> os, args |-> Tail(args)]
    ELSE LET r == IF StartsWith(Head(args), "--")
                  THEN do_longs(os, From(Head(args), 3), longopts, Tail(args))
                  ELSE do_shorts(os, From(Head(args), 2), shortopts, Tail(args))
         IN IF r.err THEN r ELSE getopt_loop(r.opts, r.args)

\* getopt.getopt(argv, 'hn:s:', ['cname=', 'osize='])
getopt(args) == getopt_loop(<< >>, args)

----------------------------------------------------------------------------
(* The script *)

TemplateNames == { "header", "field", "footer" }

\* print_help()
usage == "TestClassGenerator.py -n <class_name> -s <object_size>"

field_size == 8

\* line 64
FileName(cn) == cn \o ".java"

\* variant: the field count rounded up
FieldsCountCeil(size) == (size + field_size - 1) \div field_size

\* variant: one field short
FieldsCountLess(size) == size \div field_size - 1

\* line 69: Python 2 '/' on two ints is floor division, as \div is
FieldsCount(size) == size \div field_size

\* variant: open( name, 'a+' ), which keeps what the file holds
OpenAppend(f, name) ==
    [n \in DOMAIN f \cup {name} |-> IF n \in DOMAIN f THEN f[n] ELSE ""]

\* open( name, 'w+' ): the file is created, or emptied when it exists
OpenW(f, name) == [n \in DOMAIN f \cup {name} |-> IF n = name THEN "" ELSE f[n]]

\* file.write( text ) on the output, as it ends up on disk
Write(f, name, text) == [f EXCEPT ![name] = @ \o text]

\* variant: the partial output is removed when a step fails
AbortCleanup(f, name) == [n \in DOMAIN f \ {name} |-> f[n]]

\* an IOError leaves run() through no handler: the output stays as written
Abort(f, name) == f

\* lines 27-28
HeaderLine(line, cn) ==
    IF Contains(line, "####") THEN Replace(line, "####", cn) ELSE line

\* variant: the test looks for the '###' that line 36 replaces
FieldKeepAny(line) == Contains(line, "###")

\* line 35
FieldKeep(line) == Contains(line, "field###")

\* line 36
FieldLine(line, n) == Replace(line, "###", str(n))

\* lines 26-29: what write_header writes, one entry per file.write
HeaderOut(text, cn) ==
    [i \in 1..Len(Lines(text)) |-> HeaderLine(Lines(text)[i], cn)]

\* lines 34-37: what one iteration of write_fields writes
FieldOut(text, n) ==
    LET kept == SelectSeq(Lines(text), FieldKeep)
    IN [i \in 1..Len(kept) |-> FieldLine(kept[i], n)]

\* variant: the footer goes through the line filter of write_fields
FooterOutFiltered(text) ==
    Join(SelectSeq(Lines(text), LAMBDA l : Contains(l, "field###")))

\* line 41
FooterOut(text) == text

\* variant: the option compared without its dash
IsHelpBare(opt) == opt = "h"

\* line 56
IsHelp(opt) == opt = "-h"

\* variant: the output is opened as soon as the class name is known
LoopEndedEarly == oi > Len(opts) \/ class_name # ""

\* the for loop of line 55 has run out of pairs
LoopEnded == oi > Len(opts)

Locals ==
    /\ opts' = << >>
    /\ oi' = 1
    /\ class_name' = ""
    /\ object_size' = 0
    /\ file_name' = ""
    /\ fields_count' = 0
    /\ c' = 0
    /\ stdout' = << >>
    /\ exit_status' = -1
    /\ cause' = "running"
    /\ hdr' = << >>
    /\ blocks' = << >>
    /\ ftr' = << >>

\* the process ends
Exit(status, why) ==
    /\ pc' = "exited"
    /\ exit_status' = status
    /\ cause' = why

\* the user runs the script with the next command line
Invoke ==
    /\ pc \in { "idle", "exited" }
    /\ pending # << >>
    /\ argv' = Head(pending)
    /\ pending' = Tail(pending)
    /\ prev' = [cause |-> cause, argv |-> argv, fs0 |-> fs0, fs |-> fs]
    /\ fs0' = fs
    /\ pc' = "getopt"
    /\ Locals
    /\ UNCHANGED fs

\* lines 50-54
Getopt ==
    /\ pc = "getopt"
    /\ \/ /\ getopt(argv).err
          /\ stdout' = Append(stdout, usage)
          /\ Exit(1, "usage")
          /\ UNCHANGED opts
       \/ /\ ~getopt(argv).err
          /\ opts' = getopt(argv).opts
          /\ pc' = "opts"
          /\ UNCHANGED << stdout, exit_status, cause >>
    /\ UNCHANGED << fs, argv, oi, class_name, object_size, file_name,
                    fields_count, c, hdr, blocks, ftr, fs0, prev, pending >>

\* lines 55-62: one iteration of the for loop
OptStep ==
    /\ pc = "opts"
    /\ ~LoopEnded
    /\ LET opt == opts[oi][1]
           arg == opts[oi][2]
       IN IF IsHelp(opt)
          THEN /\ stdout' = Append(stdout, usage)
               /\ Exit(0, "help")
               /\ UNCHANGED << oi, class_name, object_size >>
          ELSE IF opt \in { "-n", "--cname" }
          THEN /\ class_name' = arg
               /\ oi' = oi + 1
               /\ UNCHANGED << pc, stdout, exit_status, cause, object_size >>
          ELSE IF opt \in { "-s", "--osize" }
          THEN IF IsInt(arg)
               THEN /\ object_size' = int(arg)
                    /\ oi' = oi + 1
                    /\ UNCHANGED << pc, stdout, exit_status, cause, class_name >>
               ELSE /\ Exit(1, "ValueError")
                    /\ UNCHANGED << oi, stdout, class_name, object_size >>
          ELSE /\ oi' = oi + 1
               /\ UNCHANGED << pc, stdout, exit_status, cause, class_name,
                               object_size >>
    /\ UNCHANGED << fs, argv, opts, file_name, fields_count, c, hdr, blocks,
                    ftr, fs0, prev, pending >>

\* lines 64-65
OpenOutput ==
    /\ pc = "opts"
    /\ LoopEnded
    /\ file_name' = FileName(class_name)
    /\ fs' = OpenW(fs, FileName(class_name))
    /\ pc' = "header"
    /\ UNCHANGED << argv, opts, oi, class_name, object_size, fields_count, c,
                    stdout, exit_status, cause, hdr, blocks, ftr, fs0, prev,
                    pending >>

\* line 66 (write_header, lines 24-29), then lines 68-69
WriteHeader ==
    /\ pc = "header"
    /\ \/ /\ "header" \notin DOMAIN fs
          /\ fs' = Abort(fs, file_name)
          /\ Exit(1, "IOError")
          /\ UNCHANGED << hdr, fields_count >>
       \/ /\ "header" \in DOMAIN fs
          /\ hdr' = HeaderOut(fs["header"], class_name)
          /\ fs' = Write(fs, file_name, Join(HeaderOut(fs["header"], class_name)))
          /\ fields_count' = FieldsCount(object_size)
          /\ pc' = "fields"
          /\ UNCHANGED << exit_status, cause >>
    /\ UNCHANGED << argv, opts, oi, class_name, object_size, file_name, c,
                    stdout, blocks, ftr, fs0, prev, pending >>

\* lines 32-37: one iteration of the loop of write_fields over range(0, count)
WriteField ==
    /\ pc = "fields"
    /\ c < fields_count
    /\ \/ /\ "field" \notin DOMAIN fs
          /\ fs' = Abort(fs, file_name)
          /\ Exit(1, "IOError")
          /\ UNCHANGED << c, blocks >>
       \/ /\ "field" \in DOMAIN fs
          /\ blocks' = Append(blocks, [index |-> c, lines |-> FieldOut(fs["field"], c)])
          /\ fs' = Write(fs, file_name, Join(FieldOut(fs["field"], c)))
          /\ c' = c + 1
          /\ UNCHANGED << pc, exit_status, cause >>
    /\ UNCHANGED << argv, opts, oi, class_name, object_size, file_name,
                    fields_count, stdout, hdr, ftr, fs0, prev, pending >>

\* line 72 (write_footer, lines 39-41), once range(0, count) is used up
WriteFooter ==
    /\ pc = "fields"
    /\ c >= fields_count
    /\ \/ /\ "footer" \notin DOMAIN fs
          /\ fs' = Abort(fs, file_name)
          /\ Exit(1, "IOError")
          /\ UNCHANGED ftr
       \/ /\ "footer" \in DOMAIN fs
          /\ ftr' = << FooterOut(fs["footer"]) >>
          /\ fs' = Write(fs, file_name, FooterOut(fs["footer"]))
          /\ pc' = "close"
          /\ UNCHANGED << exit_status, cause >>
    /\ UNCHANGED << argv, opts, oi, class_name, object_size, file_name,
                    fields_count, c, stdout, hdr, blocks, fs0, prev, pending >>

\* line 73, and the end of the script
Close ==
    /\ pc = "close"
    /\ Exit(0, "ok")
    /\ UNCHANGED << fs, argv, opts, oi, class_name, object_size, file_name,
                    fields_count, c, stdout, hdr, blocks, ftr, fs0, prev,
                    pending >>

Next ==
    \/ Invoke
    \/ Getopt
    \/ OptStep
    \/ OpenOutput
    \/ WriteHeader
    \/ WriteField
    \/ WriteFooter
    \/ Close

----------------------------------------------------------------------------
(* Initial states: a working directory and the command lines to run *)

MaxSize == 17

MaxArgs == 3

MaxRuns == 2

Headers == { "class #### {\n", "// gen\n#### ####\n#####x" }

Fields == { "long field###;\n", "// f\nlong field###; // ###\nint x###;\nfield####" }

Footers == { "}\n", "}\n// #### field###" }

\* a directory with the templates of `present`, and the files of `old` left
\* by an earlier use
Directory(present, h, f, t, old) ==
    [n \in present \cup old |->
        IF n \notin present THEN "old\n"
        ELSE IF n = "header" THEN h
        ELSE IF n = "field" THEN f
        ELSE t]

\* all sequences over S of length at most n
RECURSIVE SeqsUpTo(_, _)
SeqsUpTo(S, n) ==
    IF n = 0 THEN { << >> }
    ELSE LET shorter == SeqsUpTo(S, n - 1)
         IN shorter \cup { Append(q, x) : q \in shorter, x \in S }

\* all sequences over S of length n
RECURSIVE SeqsOf(_, _)
SeqsOf(S, n) ==
    IF n = 0 THEN { << >> }
    ELSE { Append(q, x) : q \in SeqsOf(S, n - 1), x \in S }

Start ==
    /\ pc = "idle"
    /\ argv = << >>
    /\ opts = << >>
    /\ oi = 1
    /\ class_name = ""
    /\ object_size = 0
    /\ file_name = ""
    /\ fields_count = 0
    /\ c = 0
    /\ stdout = << >>
    /\ exit_status = -1
    /\ cause = "none"
    /\ hdr = << >>
    /\ blocks = << >>
    /\ ftr = << >>
    /\ fs0 = fs
    /\ prev = [cause |-> "none", argv |-> << >>, fs0 |-> fs, fs |-> fs]

\* generation: every template choice, one run, sizes around the field width
Sizes == { str(n) : n \in ((0 - 9)..MaxSize) \cup { 256 } }

GenArgvs ==
    { << "-n", "A", "-s", sz >> : sz \in Sizes }
        \cup { << "--osize=8", "--cname=A" >>, << "-s", "abc" >>, << "-h" >>,
               << "-x" >>, << >> }

Init ==
    /\ \E present \in SUBSET TemplateNames, h \in Headers, f \in Fields,
          t \in Footers, old \in { {}, { "A.java", ".java" } } :
            fs = Directory(present, h, f, t, old)
    /\ pending \in SeqsOf(GenArgvs, 1)
    /\ Start

Spec == Init /\ [][Next]_vars

\* argument handling: every short command line over Tokens, one run
Tokens == { "-h", "-n", "-s", "-x", "--help", "--cname=B", "--osize", "8",
            "-8", "abc", "--" }

InitArgs ==
    /\ \E present \in { TemplateNames, TemplateNames \ { "header" },
                        TemplateNames \ { "field" }, TemplateNames \ { "footer" } },
          old \in { {}, { FileName(cn) : cn \in Tokens \cup { "", "B" } } } :
            fs = Directory(present, "class #### {\n", "long field###;\n", "}\n", old)
    /\ pending \in SeqsOf(SeqsUpTo(Tokens, MaxArgs), 1)
    /\ Start

SpecArgs == InitArgs /\ [][Next]_vars

\* repetition: MaxRuns runs in a row
TwiceArgvs ==
    { << "-n", "A", "-s", "16" >>, << "-n", "A", "-s", "8" >>,
      << "-n", "B", "-s", "16" >>, << "-n", "A", "-s", "x" >>, << "-x" >>,
      << "-h" >> }

InitTwice ==
    /\ \E present \in SUBSET TemplateNames, h \in Headers, f \in Fields,
          t \in Footers, old \in { {}, { "A.java" } } :
            fs = Directory(present, h, f, t, old)
    /\ pending \in SeqsOf(TwiceArgvs, MaxRuns)
    /\ Start

SpecTwice == InitTwice /\ [][Next]_vars

----------------------------------------------------------------------------
(* Properties of generation, checked under Spec *)

Ended == pc = "exited"

\* write_header has returned
HeaderWritten == pc \in { "fields", "close" } \/ (Ended /\ cause = "ok")

\* write_fields has returned
FieldsWritten ==
    (pc = "fields" /\ c >= fields_count) \/ pc = "close" \/ (Ended /\ cause = "ok")

\* the text of the field blocks, in the order they were written
RECURSIVE BlockText(_)
BlockText(bs) ==
    IF bs = << >> THEN "" ELSE Join(Head(bs).lines) \o BlockText(Tail(bs))

\* the header template with every '####' replaced by the class name
SubstitutedHeader == Replace(fs0["header"], "####", class_name)

\* the lines of the field template that contain the placeholder
PlaceholderLines == SelectSeq(Lines(fs0["field"]), LAMBDA l : Contains(l, "field###"))

\* C1: for object_size >= 0, once write_fields has returned it has emitted
\* exactly floor(object_size / 8) field blocks, the k-th block being the one
\* of index k - 1 (each index once, ascending); while it runs, the blocks
\* emitted so far are those of indices 0, 1, 2, ... in that order.
C1_FieldBlocks ==
    /\ \A k \in 1..Len(blocks) : blocks[k].index = k - 1
    /\ (FieldsWritten /\ object_size >= 0) =>
          /\ 8 * Len(blocks) <= object_size
          /\ object_size < 8 * Len(blocks) + 8

C1_Witness ==
    /\ Ended /\ cause = "ok"
    /\ object_size = 256
    /\ Len(blocks) = 32
    /\ blocks[32].index = 31

\* C2: when run() completes, <class_name>.java holds exactly the substituted
\* header, then the field blocks, then the footer template verbatim, whatever
\* the file held before; for object_size < 8, negative sizes included, it holds
\* the header directly followed by the footer, with no field block.
C2_OutputLayout ==
    (Ended /\ cause = "ok") =>
        /\ file_name = class_name \o ".java"
        /\ fs[file_name] = SubstitutedHeader \o BlockText(blocks) \o fs0["footer"]
        /\ object_size < 8 =>
              /\ blocks = << >>
              /\ fs[file_name] = SubstitutedHeader \o fs0["footer"]

C2_Witness ==
    /\ Ended /\ cause = "ok"
    /\ object_size < 0
    /\ file_name \in DOMAIN fs0
    /\ fs0[file_name] # ""
    /\ fs[file_name] = SubstitutedHeader \o fs0["footer"]

\* C6 as stated: whenever one of the three templates is missing, an
\* invocation that gets past its arguments ends with an unhandled IOError.
C6_AnyMissingAborts ==
    (Ended /\ cause \notin { "usage", "help", "ValueError" }
           /\ ~(TemplateNames \subseteq DOMAIN fs0)) =>
        (cause = "IOError" /\ exit_status = 1)

\* C6, amended: when the header or the footer template is missing, or the
\* field template is missing and object_size >= 8, an invocation that gets
\* past its arguments ends with an unhandled IOError (exit status 1) and
\* never completes.
C6_MissingAborts ==
    (Ended /\ cause \notin { "usage", "help", "ValueError" }
           /\ \/ "header" \notin DOMAIN fs0
              \/ "footer" \notin DOMAIN fs0
              \/ ("field" \notin DOMAIN fs0 /\ object_size >= 8)) =>
        (cause = "IOError" /\ exit_status = 1)

C6_Witness ==
    /\ Ended /\ cause = "IOError"
    /\ DOMAIN fs0 \cap TemplateNames = { "header", "footer" }
    /\ object_size >= 8

\* C8: write_header writes one line per line of the header template, in
\* order: the template line itself when it has no '####', otherwise the line
\* with every '####' replaced by the class name.  Each iteration of
\* write_fields writes one line per line of the field template that contains
\* 'field###', in template order, and nothing for the other lines.
C8_LineCopying ==
    /\ HeaderWritten =>
          /\ Len(hdr) = Len(Lines(fs0["header"]))
          /\ \A i \in 1..Len(hdr) :
                LET l == Lines(fs0["header"])[i]
                IN /\ ~Contains(l, "####") => hdr[i] = l
                   /\ Contains(l, "####") => hdr[i] = Replace(l, "####", class_name)
    /\ \A k \in 1..Len(blocks) :
          /\ Len(blocks[k].lines) = Len(PlaceholderLines)
          /\ \A i \in 1..Len(blocks[k].lines) :
                LET l == PlaceholderLines[i]
                    p == Find(l, "field###", 1)
                IN SubSeq(blocks[k].lines[i], 1, p + 4) = SubSeq(l, 1, p + 4)

C8_Witness ==
    /\ Ended /\ cause = "ok"
    /\ Len(blocks) >= 2
    /\ Len(hdr) = 3
    /\ Len(Lines(fs0["field"])) = 4
    /\ Len(blocks[2].lines) = 2

\* C9: in every line write_fields emits for index c, only the '###' that
\* directly follows 'field' is replaced by the decimal text of c; the rest of
\* the template line, other runs of '#' included, is written unchanged.
C9_OnlySuffixReplaced ==
    \A k \in 1..Len(blocks) :
        /\ Len(blocks[k].lines) = Len(PlaceholderLines)
        /\ \A i \in 1..Len(blocks[k].lines) :
              blocks[k].lines[i] =
                  Replace(PlaceholderLines[i], "field###",
                          "field" \o str(blocks[k].index))

\* C10: the output is created or emptied before any template is opened, and
\* a failing step leaves what the earlier steps wrote: nothing when the
\* header template is missing, the substituted header when the field
\* template is missing and a field is due, the header and every field block
\* when the footer template is missing; the output file is still there.
C10_PartialOutput ==
    /\ pc = "header" => (file_name \in DOMAIN fs /\ fs[file_name] = "")
    /\ (Ended /\ cause = "IOError") =>
          /\ file_name \in DOMAIN fs
          /\ "header" \notin DOMAIN fs0 => fs[file_name] = ""
          /\ ("header" \in DOMAIN fs0 /\ "field" \notin DOMAIN fs0
                 /\ object_size >= 8) =>
                fs[file_name] = SubstitutedHeader
          /\ ("header" \in DOMAIN fs0 /\ "footer" \notin DOMAIN fs0
                 /\ ("field" \in DOMAIN fs0 \/ object_size < 8)) =>
                /\ fs[file_name] = SubstitutedHeader \o BlockText(blocks)
                /\ object_size >= 0 => 8 * Len(blocks) <= object_size
                /\ object_size >= 0 => object_size < 8 * Len(blocks) + 8

C10_Witness ==
    /\ Ended /\ cause = "IOError"
    /\ "header" \notin DOMAIN fs0
    /\ file_name \in DOMAIN fs0
    /\ fs0[file_name] # ""
    /\ fs[file_name] = ""

----------------------------------------------------------------------------
(* Properties of argument handling, checked under SpecArgs *)

\* the flags that take the next argument as their value
ValueFlags == { "-n", "-s", "--cname", "--osize" }

\* whether, reading the whole-word arguments from the left as options,
\* one meets a flag that is not recognized or that lacks its value before
\* the options end (at "--", or at the first argument that is no flag)
RECURSIVE BadFlagAmongOptions(_)
BadFlagAmongOptions(args) ==
    IF args = << >> THEN FALSE
    ELSE LET t == Head(args) IN
         IF t = "--" \/ t = "-" \/ ~StartsWith(t, "-") THEN FALSE
         ELSE IF t \in ValueFlags
              THEN IF Len(args) = 1 THEN TRUE
                   ELSE BadFlagAmongOptions(Tail(Tail(args)))
         ELSE IF t = "-h" \/ StartsWith(t, "--cname=") \/ StartsWith(t, "--osize=")
              THEN BadFlagAmongOptions(Tail(args))
         ELSE TRUE

\* the i-th parsed option is -s/--osize with a value int() rejects
BadSizeAt(i) == opts[i][1] \in { "-s", "--osize" } /\ ~IsInt(opts[i][2])

\* C3 as stated: whenever -h or --help is in the argument list, the usage
\* message is printed and the process ends with exit status 0.
C3_HelpAnywhere ==
    (Ended /\ \E i \in 1..Len(argv) : argv[i] \in { "-h", "--help" }) =>
        (exit_status = 0 /\ stdout = << usage >>)

\* C3, amended: whenever getopt accepts the argument list and the parsed
\* options contain -h with no non-integer -s/--osize value before it, the
\* usage message is printed and the process ends with exit status 0; --help
\* is not a recognized option: given first, it ends the run with the usage
\* message and exit status 1.
C3_Help ==
    /\ (Ended /\ \E i \in 1..Len(opts) :
                    /\ opts[i][1] = "-h"
                    /\ \A j \in 1..(i - 1) : ~BadSizeAt(j)) =>
          (exit_status = 0 /\ stdout = << usage >> /\ cause = "help")
    /\ (Ended /\ argv # << >> /\ Head(argv) = "--help") =>
          (exit_status = 1 /\ stdout = << usage >>)

C3_Witness ==
    /\ Ended /\ cause = "help" /\ exit_status = 0
    /\ Len(opts) = 2
    /\ opts[1] = << "-s", "8" >>
    /\ opts[2][1] = "-h"

\* C4 as stated: whenever an unrecognized flag is anywhere in the argument
\* list, or the list ends in a flag that needs a value, the usage message is
\* printed and the process ends with exit status 1.
C4_BadFlagAnywhere ==
    (Ended /\ \/ \E i \in 1..Len(argv) : argv[i] \in { "-x", "--help", "-8" }
              \/ (argv # << >> /\ argv[Len(argv)] \in ValueFlags)) =>
        (exit_status = 1 /\ stdout = << usage >>)

\* C4, amended: whenever getopt, reading the options from the left, meets an
\* unrecognized flag or a flag lacking its value (one that is not itself
\* taken as the value of a preceding -n/-s/--cname/--osize and does not come
\* after "--" or the first non-option argument), the usage message is
\* printed and the process ends with exit status 1, whatever valid flags
\* come before or after it; no other argument list ends that way.
C4_BadFlag ==
    Ended => /\ BadFlagAmongOptions(argv) =>
                 (exit_status = 1 /\ stdout = << usage >> /\ cause = "usage")
             /\ cause = "usage" => BadFlagAmongOptions(argv)

C4_Witness ==
    /\ Ended /\ cause = "usage" /\ exit_status = 1
    /\ Len(argv) >= 2
    /\ Head(argv) = "-h"
    /\ argv[Len(argv)] = "-x"

\* C5: an invocation that ends in argument handling (getopt rejects the
\* list, or the parsed options contain -h or a non-integer size) never
\* touches the directory: no file is created, and an existing
\* <class_name>.java keeps its content, wherever -n stands among the flags.
C5_NoFileOnArgumentExit ==
    (pc # "idle"
       /\ \/ getopt(argv).err
          \/ \E i \in 1..Len(getopt(argv).opts) :
                \/ getopt(argv).opts[i][1] = "-h"
                \/ /\ getopt(argv).opts[i][1] \in { "-s", "--osize" }
                   /\ ~IsInt(getopt(argv).opts[i][2])) =>
        /\ fs = fs0
        /\ Ended => cause \in { "usage", "help", "ValueError" }

C5_Witness ==
    /\ Ended /\ cause = "ValueError"
    /\ class_name = "B"
    /\ "B.java" \in DOMAIN fs0
    /\ fs["B.java"] = "old\n"

----------------------------------------------------------------------------
(* Repetition, checked under SpecTwice *)

Templates(f) == [n \in DOMAIN f \cap TemplateNames |-> f[n]]

\* C7: when a completed run is followed by a run with the same arguments
\* and the same templates, the second run leaves the directory exactly as
\* the first did, so the output file has the same content; the output file
\* is never one of the templates, and a run leaves the templates as they
\* were.
C7_Idempotent ==
    (Ended /\ cause = "ok") =>
        /\ file_name \notin TemplateNames
        /\ Templates(fs) = Templates(fs0)
        /\ (prev.cause = "ok" /\ prev.argv = argv
               /\ Templates(prev.fs0) = Templates(fs0)) =>
              /\ fs[file_name] = prev.fs[file_name]
              /\ fs = prev.fs

C7_Witness ==
    /\ Ended /\ cause = "ok"
    /\ prev.cause = "ok" /\ prev.argv = argv
    /\ blocks # << >>
    /\ "A.java" \in DOMAIN prev.fs0
    /\ fs0[file_name] # "" /\ fs[file_name] = fs0[file_name]

====
